---- MODULE Spec2Model ----
(***************************************************************************)
(* Model of src/app.py: a Streamlit script that is re-executed top to      *)
(* bottom on every interaction.  One script run is one action.  State that *)
(* survives a run: the knowledge/ directory, the process-wide              *)
(* st.cache_resource entry of setup_engine, and st.session_state.  What a  *)
(* run puts on the page is recorded in `view`.                             *)
(*                                                                         *)
(* Text is modelled as a sequence of tokens.  The tokens are the pieces    *)
(* the code's substring tests and replacements can tell apart:             *)
(*   "SOURCE_TYPE: "  "METADATA"  "CONTENT"  whitespace  other text        *)
(***************************************************************************)
EXTENDS Integers, Sequences, FiniteSets, Bags, TLC

VARIABLES
    dir,            \* knowledge/ : [exists, files] (files in os.listdir order)
    cache,          \* st.cache_resource entry of setup_engine
    loaderRuns,     \* how many times the body of setup_engine was executed
    lastBuild,      \* the last execution of that body: what it saw and did
    session_state,  \* st.session_state of the live browser session
    inputShown,     \* st.chat_input was rendered by the session's last run
    view,           \* what the last script run rendered
    raw_content,    \* rendering pipeline in isolation: the model's reply
    results,        \* rendering pipeline in isolation: the retrieved records
    rendered        \* rendering pipeline in isolation: its output

vars == <<dir, cache, loaderRuns, lastBuild, session_state, inputShown, view,
          raw_content, results, rendered>>

appVars == <<dir, cache, loaderRuns, lastBuild, session_state, inputShown, view>>

renderVars == <<raw_content, results, rendered>>

---------------------------------------------------------------------------
\* Bounds of the model

MaxTurns == 2

MaxBuildAttempts == 2

MaxReplyLen == 4

\* k of engine.similarity_search(prompt, k=6)
K == 6

---------------------------------------------------------------------------
\* Text

tokST == "SOURCE_TYPE: "

tokMETA == "METADATA"

tokCONT == "CONTENT"

tokWS == " "

tokTEXT == "text"

Tokens == {tokST, tokMETA, tokCONT, tokWS, tokTEXT}

MARKER_METADATA == <<tokST, tokMETA>>

MARKER_CONTENT == <<tokST, tokCONT>>

WORD_CONTENT == <<tokCONT>>

\* s[i..] starts with pat
StartsAt(s, pat, i) ==
    /\ i + Len(pat) - 1 <= Len(s)
    /\ \A j \in 1..Len(pat) : s[i + j - 1] = pat[j]

\* Python: pat in s
Contains(s, pat) == \E i \in 1..(Len(s) - Len(pat) + 1) : StartsAt(s, pat, i)

\* Python: s.replace(old, new) for non-empty old, scanning from position i:
\* leftmost occurrences, non-overlapping, the result is not rescanned
RECURSIVE ReplaceFrom(_, _, _, _)
ReplaceFrom(s, old, new, i) ==
    IF i > Len(s) THEN <<>>
    ELSE IF StartsAt(s, old, i)
         THEN new \o ReplaceFrom(s, old, new, i + Len(old))
         ELSE <<s[i]>> \o ReplaceFrom(s, old, new, i + 1)

Replace(s, old, new) == ReplaceFrom(s, old, new, 1)

RECURSIVE LStrip(_)
LStrip(s) == IF s # <<>> /\ Head(s) = tokWS THEN LStrip(Tail(s)) ELSE s

RECURSIVE RStrip(_)
RStrip(s) ==
    IF s # <<>> /\ s[Len(s)] = tokWS THEN RStrip(SubSeq(s, 1, Len(s) - 1)) ELSE s

\* Python: s.strip()
Strip(s) == RStrip(LStrip(s))

---------------------------------------------------------------------------
\* The knowledge/ directory and the documents in it

FileA == [stem |-> "sop-001", ext |-> ".pdf"]

FileB == [stem |-> "SOP-002", ext |-> ".PDF"]

FileN == [stem |-> "notes", ext |-> ".txt"]

FileUniverse == {FileA, FileB, FileN}

\* Python: ext.lower()
Lower(ext) == IF ext = ".PDF" THEN ".pdf" ELSE ext

\* f.lower().endswith('.pdf')
IsPdf(f) == Lower(f.ext) = ".pdf"

\* number of pages PyPDFLoader yields for a file that loads
PageCount(f) == IF f = FileA THEN 2 ELSE 1

\* os.path.join(path, pdf)
PathOf(f) == <<"knowledge/", f>>

\* os.path.basename(path)
basename(path) == path[Len(path)]

\* one page Document of loader.load(): metadata source and 0-based page
Doc(f, i) == [metadata |-> [source |-> PathOf(f), page |-> i]]

\* loader.load() for a file that loads: its pages in order
LoadPages(f) == [i \in 1..PageCount(f) |-> Doc(f, i - 1)]

Range(s) == {s[i] : i \in DOMAIN s}

\* the directory listings the process can start with: no directory, or any
\* listing order of any subset of the files
Listings ==
    {l \in UNION {[1..n -> FileUniverse] : n \in 0..Cardinality(FileUniverse)} :
        \A i, j \in DOMAIN l : i # j => l[i] # l[j]}

\* os.listdir(path) if os.path.exists(path) else []
ListDir(d) == IF d.exists THEN d.files ELSE <<>>

\* [f for f in all_files if f.lower().endswith('.pdf')]
PdfFiles(all_files) == SelectSeq(all_files, IsPdf)

---------------------------------------------------------------------------
\* setup_engine

None == [kind |-> "None", documents |-> <<>>, truthy |-> FALSE]

\* a Chroma store over the given documents; truthy is what bool(store) gives
Vectorstore(docs, t) == [kind |-> "Chroma", documents |-> docs, truthy |-> t]

\* a faulty variant of LoadAll: the first file that fails to load ends the loop
RECURSIVE LoadAllAbortOnError(_, _)
LoadAllAbortOnError(pdf_files, bad) ==
    IF pdf_files = <<>> THEN <<>>
    ELSE IF Head(pdf_files) \in bad THEN <<>>
         ELSE LoadPages(Head(pdf_files)) \o LoadAllAbortOnError(Tail(pdf_files), bad)

\* the loop over pdf_files: all_pages.extend(loader.load()), a file in `bad`
\* raises inside the try and contributes nothing
RECURSIVE LoadAll(_, _)
LoadAll(pdf_files, bad) ==
    IF pdf_files = <<>> THEN <<>>
    ELSE (IF Head(pdf_files) \in bad THEN <<>> ELSE LoadPages(Head(pdf_files)))
         \o LoadAll(Tail(pdf_files), bad)

\* the outcomes of building the index from all_pages: HuggingFaceEmbeddings or
\* Chroma.from_documents raises, or a store over exactly all_pages is returned.
\* bool() of a store over no documents is left open.
BuildOutcomes(pdf_files, bad) ==
    LET all_pages == LoadAll(pdf_files, bad)
    IN  {[raised |-> TRUE, value |-> None, warned |-> bad,
          pdf_files |-> pdf_files, all_pages |-> all_pages]}
        \cup
        {[raised |-> FALSE, value |-> Vectorstore(all_pages, t), warned |-> bad,
          pdf_files |-> pdf_files, all_pages |-> all_pages] :
            t \in IF all_pages = <<>> THEN BOOLEAN ELSE {TRUE}}

\* a faulty variant of SetupEngineBody: the early return for an empty pdf_files is gone
SetupEngineBodyNoEarlyReturn(d) ==
    LET pdf_files == PdfFiles(ListDir(d))
    IN  UNION {BuildOutcomes(pdf_files, bad) : bad \in SUBSET Range(pdf_files)}

\* the body of setup_engine: the set of its outcomes, one per choice of the
\* files whose load raises and of whether the build raises
SetupEngineBody(d) ==
    LET pdf_files == PdfFiles(ListDir(d))
    IN  IF pdf_files = <<>>
        THEN {[raised |-> FALSE, value |-> None, warned |-> {},
               pdf_files |-> pdf_files, all_pages |-> <<>>]}
        ELSE UNION {BuildOutcomes(pdf_files, bad) : bad \in SUBSET Range(pdf_files)}

EmptyCache == [filled |-> FALSE, value |-> None]

\* no execution of the body yet
NoBuild == [raised |-> FALSE, pdf_files |-> <<>>, warned |-> {}, all_pages |-> <<>>]

\* a faulty variant of setup_engine: the decorator is missing, every call runs the body
setup_engine_uncached(c, d, n) ==
    {o @@ [ran |-> TRUE] :
        o \in {b \in SetupEngineBody(d) : b.raised => n + 1 < MaxBuildAttempts}}

\* @st.cache_resource setup_engine(): a cached value is returned without
\* running the body; otherwise the body runs (run number n + 1) and its value
\* is cached unless it raised
setup_engine(c, d, n) ==
    IF c.filled
    THEN {[raised |-> FALSE, value |-> c.value, warned |-> {},
           pdf_files |-> <<>>, all_pages |-> <<>>, ran |-> FALSE]}
    ELSE {o @@ [ran |-> TRUE] :
            o \in {b \in SetupEngineBody(d) :
                     b.raised => n + 1 < MaxBuildAttempts}}

---------------------------------------------------------------------------
\* Retrieval

Min(a, b) == IF a < b THEN a ELSE b

\* the elements of s at the positions in I, in the order of s
RECURSIVE SubseqAt(_, _, _)
SubseqAt(s, I, i) ==
    IF i > Len(s) THEN <<>>
    ELSE (IF i \in I THEN <<s[i]>> ELSE <<>>) \o SubseqAt(s, I, i + 1)

\* engine.similarity_search(prompt, k): the possible results, min(k, N) distinct
\* records of the index.  Which records are nearest depends on the embedding,
\* so every choice is possible.  The order of the records only feeds the
\* prompt text sent to the model, whose reply is unconstrained here, so the
\* records are listed in index order.
similarity_search(engine, k) ==
    LET N == Len(engine.documents)
    IN  {SubseqAt(engine.documents, I, 1) :
            I \in {J \in SUBSET (1..N) : Cardinality(J) = Min(k, N)}}

---------------------------------------------------------------------------
\* Rendering of the model's reply (D. Parse Source Type, Verified Grounding)

DISPLAY_METADATA == "System Metadata (Library List)"

DISPLAY_CONTENT == "Document Content (Inside SOPs)"

NO_DISPLAY == "-"

\* if "SOURCE_TYPE: METADATA" in raw_content
IsMetadata(raw) == Contains(raw, MARKER_METADATA)

source_display(raw) == IF IsMetadata(raw) THEN DISPLAY_METADATA ELSE DISPLAY_CONTENT

clean_response(raw) ==
    IF IsMetadata(raw)
    THEN Strip(Replace(raw, MARKER_METADATA, <<>>))
    ELSE Strip(Replace(raw, MARKER_CONTENT, <<>>))

\* if "CONTENT" in raw_content
ShowsGrounding(raw) == Contains(raw, WORD_CONTENT)

\* f"{os.path.basename(d.metadata['source'])} (p.{d.metadata['page']+1})"
Citation(d) == [name |-> basename(d.metadata.source), page |-> d.metadata.page + 1]

\* [Citation(d) for d in results]
CitationList(res) == [i \in DOMAIN res |-> Citation(res[i])]

\* a faulty variant of PySet: the list is kept as it is, duplicates included
KeepDuplicates(list) ==
    [c \in Range(list) |-> Cardinality({i \in DOMAIN list : list[i] = c})]

\* Python: set(list), as a bag in which every element occurs once
PySet(list) == SetToBag(Range(list))

\* sources = set([... for d in results])
sources(res) == PySet(CitationList(res))

\* what lines 143-158 put on the page for a reply and the records retrieved
Render(raw, res) ==
    [source_display |-> source_display(raw),
     clean_response |-> clean_response(raw),
     grounding      |-> ShowsGrounding(raw),
     sources        |-> IF ShowsGrounding(raw) THEN sources(res) ELSE EmptyBag]

\* the rendering has not run
NotRendered == [done |-> FALSE, out |-> Render(<<>>, <<>>)]

---------------------------------------------------------------------------
\* Session state and the chat turn

\* st.chat_input returned nothing
NoPrompt == <<>>

Prompts == {<<"q1">>, <<"q2">>}

\* the replies llm.invoke can give in a chat turn: one that starts with the
\* metadata marker, one that starts with the content marker, one with no
\* marker, and a metadata-marked one that also has the word CONTENT in it
TurnReplies ==
    {<<tokST, tokMETA, tokWS, tokTEXT>>,
     <<tokST, tokCONT, tokWS, tokTEXT>>,
     <<tokTEXT>>,
     <<tokST, tokMETA, tokWS, tokCONT>>}

\* a session that has not run the script yet: no key is set
EmptySession == [k \in {} |-> <<>>]

\* a faulty variant of InitSessionState: the lists are reset on every run
ResetSessionState(ss) == [k \in {"chat_history", "logs"} |-> <<>>]

\* if 'chat_history' not in st.session_state: ... = []   (and the same for logs)
InitSessionState(ss) ==
    [k \in DOMAIN ss \cup {"chat_history", "logs"} |->
        IF k \in DOMAIN ss THEN ss[k] ELSE <<>>]

Message(role, content) == [role |-> role, content |-> content]

\* datetime.datetime.now().strftime(...): the time of the append.  No code path
\* reads it back, so it is kept as one opaque value.
NOW == "now"

\* the dict appended to st.session_state.logs
LogEntry(prompt, display) ==
    [user |-> "Shan (Lead)", timestamp |-> NOW, query |-> prompt,
     source_type |-> display, status |-> "Success"]

Reverse(s) == [i \in DOMAIN s |-> s[Len(s) + 1 - i]]

\* the sidebar: the pdf files listed, the CSV offered for download (one row per
\* entry, oldest first, only when there are entries), the expanders newest first
Sidebar(d, logs) ==
    [current_pdfs |-> PdfFiles(ListDir(d)),
     download     |-> logs # <<>>,
     csv          |-> logs,
     expanders    |-> Reverse(logs)]

\* the outcome of a run that processed no prompt
NoTurn ==
    [error |-> "none", stage |-> "-", searches |-> 0, invokes |-> 0,
     answered |-> FALSE, results |-> <<>>, raw_content |-> <<>>,
     source_display |-> NO_DISPLAY, clean_response |-> <<>>,
     grounding |-> FALSE, sources |-> EmptyBag,
     add_history |-> <<>>, add_logs |-> <<>>]

\* a faulty variant of FailedTurn: the turn is written to the audit trail
\* before the call that raises
FailedTurnLogged(prompt, stage, searches, invokes) ==
    [NoTurn EXCEPT !.error = "exception", !.stage = stage,
                   !.searches = searches, !.invokes = invokes,
                   !.add_logs = <<LogEntry(prompt, DISPLAY_CONTENT)>>]

\* a call of the turn raised: nothing after it runs, Streamlit shows the
\* exception, nothing was rendered or stored for the assistant
FailedTurn(prompt, stage, searches, invokes) ==
    [NoTurn EXCEPT !.error = "exception", !.stage = stage,
                   !.searches = searches, !.invokes = invokes]

\* a faulty variant of SaveTurn: the audit entry is not written
SaveTurnNoLog(r, prompt) ==
    [add_history |-> <<Message("assistant", r.clean_response)>>, add_logs |-> <<>>]

\* 3. Save to History and Audit Trail
SaveTurn(r, prompt) ==
    [add_history |-> <<Message("assistant", r.clean_response)>>,
     add_logs    |-> <<LogEntry(prompt, r.source_display)>>]

\* the turn ran to its end with records res and reply raw
AnsweredTurn(prompt, res, raw) ==
    LET r == Render(raw, res)
    IN  [error |-> "none", stage |-> "-", searches |-> 1, invokes |-> 1,
         answered |-> TRUE, results |-> res, raw_content |-> raw,
         source_display |-> r.source_display,
         clean_response |-> r.clean_response,
         grounding |-> r.grounding, sources |-> r.sources,
         add_history |-> SaveTurn(r, prompt).add_history,
         add_logs |-> SaveTurn(r, prompt).add_logs]

\* the else branch: st.error("No PDFs detected ...")
RejectedTurn == [NoTurn EXCEPT !.error = "no_pdfs"]

\* if engine:
EngineAvailable(engine) == engine.truthy

\* the outcomes of lines 108-170 for a prompt, after the user message was added
ChatTurn(engine, prompt) ==
    IF EngineAvailable(engine)
    THEN {FailedTurn(prompt, "similarity_search", 1, 0),
          FailedTurn(prompt, "get_llm", 1, 0),
          FailedTurn(prompt, "llm.invoke", 1, 1)}
         \cup
         {AnsweredTurn(prompt, res, raw) :
            res \in similarity_search(engine, K), raw \in TurnReplies}
    ELSE {RejectedTurn}

BlankView ==
    [prompt |-> NoPrompt, turn |-> NoTurn, ran |-> FALSE, started_by |-> "-",
     sidebar |-> Sidebar([exists |-> FALSE, files |-> <<>>], <<>>)]

---------------------------------------------------------------------------
\* One execution of the script for the session state ss and the submitted
\* prompt (NoPrompt when the run was not started by the chat input).  The view
\* also records what started the run.

ScriptRun(ss, prompt, started_by) ==
    LET ss1  == InitSessionState(ss)
        side == Sidebar(dir, ss1.logs)
    IN  \E se \in setup_engine(cache, dir, loaderRuns) :
          /\ dir' = IF se.ran THEN [exists |-> TRUE, files |-> ListDir(dir)] ELSE dir
          /\ loaderRuns' = IF se.ran THEN loaderRuns + 1 ELSE loaderRuns
          /\ lastBuild' = IF se.ran
                          THEN [raised |-> se.raised, pdf_files |-> se.pdf_files,
                                warned |-> se.warned, all_pages |-> se.all_pages]
                          ELSE lastBuild
          /\ IF se.raised
             THEN /\ cache' = cache
                  /\ inputShown' = FALSE
                  /\ session_state' = ss1
                  /\ view' = [prompt |-> NoPrompt,
                              turn |-> FailedTurn(prompt, "setup_engine", 0, 0),
                              ran |-> se.ran, started_by |-> started_by,
                                   sidebar |-> side]
             ELSE /\ cache' = [filled |-> TRUE, value |-> se.value]
                  /\ inputShown' = TRUE
                  /\ \E o \in (IF prompt = NoPrompt THEN {NoTurn}
                               ELSE ChatTurn(se.value, prompt)) :
                       /\ session_state' =
                            [ss1 EXCEPT
                               !.chat_history =
                                   (IF prompt = NoPrompt THEN @
                                    ELSE Append(@, Message("user", prompt)))
                                   \o o.add_history,
                               !.logs = @ \o o.add_logs]
                       /\ view' = [prompt |-> prompt, turn |-> o,
                                   ran |-> se.ran, started_by |-> started_by,
                                   sidebar |-> side]
          /\ UNCHANGED renderVars

History == IF "chat_history" \in DOMAIN session_state
           THEN session_state.chat_history ELSE <<>>

Logs == IF "logs" \in DOMAIN session_state THEN session_state.logs ELSE <<>>

UserMessages == {i \in DOMAIN History : History[i].role = "user"}

AssistantMessages == {i \in DOMAIN History : History[i].role = "assistant"}

\* the page is loaded for the first time, or re-run without a prompt (the
\* download button, the Rerun menu)
Rerun == ScriptRun(session_state, NoPrompt, "rerun")

\* the browser reloads the page: a new session, with no key set, replaces the
\* live one in the same process
Reload == ScriptRun(EmptySession, NoPrompt, "reload")

\* the user submits a prompt in the chat input
Ask(prompt) ==
    /\ inputShown
    /\ Cardinality(UserMessages) < MaxTurns
    /\ ScriptRun(session_state, prompt, "prompt")

Init ==
    /\ dir \in {[exists |-> FALSE, files |-> <<>>]}
               \cup {[exists |-> TRUE, files |-> l] : l \in Listings}
    /\ cache = EmptyCache
    /\ loaderRuns = 0
    /\ lastBuild = NoBuild
    /\ session_state = EmptySession
    /\ inputShown = FALSE
    /\ view = BlankView
    /\ raw_content = <<>>
    /\ results = <<>>
    /\ rendered = NotRendered

Next ==
    \/ Rerun
    \/ Reload
    \/ \E p \in Prompts : Ask(p)

Spec == Init /\ [][Next]_vars

---------------------------------------------------------------------------
\* The rendering of one reply in isolation: any reply of up to MaxReplyLen
\* tokens, any list of up to K retrieved records (the same record may occur
\* more than once)

Replies == UNION {[1..n -> Tokens] : n \in 0..MaxReplyLen}

DocUniverse == {Doc(FileA, 0), Doc(FileB, 0)}

ResultLists == UNION {[1..n -> DocUniverse] : n \in 0..K}

RenderReply ==
    /\ ~rendered.done
    /\ rendered' = [done |-> TRUE, out |-> Render(raw_content, results)]
    /\ UNCHANGED <<raw_content, results, appVars>>

InitRender ==
    /\ raw_content \in Replies
    /\ results \in ResultLists
    /\ rendered = NotRendered
    /\ dir = [exists |-> FALSE, files |-> <<>>]
    /\ cache = EmptyCache
    /\ loaderRuns = 0
    /\ lastBuild = NoBuild
    /\ session_state = EmptySession
    /\ inputShown = FALSE
    /\ view = BlankView

NextRender == RenderReply

SpecRender == InitRender /\ [][NextRender]_vars

---------------------------------------------------------------------------
\* Properties

IsPrefix(s, t) == Len(s) <= Len(t) /\ SubSeq(t, 1, Len(s)) = s

\* the step is a run started by a submitted prompt
AskStep == view'.started_by = "prompt"

\* the step is a run in the live session, not a reload
SessionStep == view'.started_by \in {"prompt", "rerun"}

\* setup_engine returned after finding no file that ends in .pdf, whatever the case
EngineUnavailable == cache.filled /\ lastBuild.pdf_files = <<>>

\* C1: when initialization found no matching file, setup_engine yields None,
\* and a query submitted in that state runs neither similarity_search nor
\* llm.invoke, shows the error message and appends nothing to the log.
C1_EmptyCorpusRejectsQueries ==
    /\ [](EngineUnavailable => cache.value = None)
    /\ [][(AskStep /\ EngineUnavailable) =>
            /\ view'.turn.error = "no_pdfs"
            /\ view'.turn.searches = 0
            /\ view'.turn.invokes = 0
            /\ ~view'.turn.answered
            /\ Logs' = Logs]_vars

C1_Witness ==
    /\ EngineUnavailable
    /\ dir.files # <<>>
    /\ view.prompt # NoPrompt
    /\ view.turn.error = "no_pdfs"

\* C2: when similarity_search, get_llm or llm.invoke raises in a turn, no call
\* is repeated, the log is unchanged, and no assistant answer is shown or
\* added to the chat history (only the user message was added).
C2_FailedTurnLeavesNoTrace ==
    [][(AskStep /\ view'.turn.error = "exception") =>
         /\ view'.turn.stage \in {"similarity_search", "get_llm", "llm.invoke"}
         /\ view'.turn.searches <= 1
         /\ view'.turn.invokes <= 1
         /\ ~view'.turn.answered
         /\ view'.turn.clean_response = <<>>
         /\ Logs' = Logs
         /\ History' = Append(History, Message("user", view'.prompt))]_vars

C2_Witness ==
    /\ view.prompt # NoPrompt
    /\ view.turn.error = "exception"
    /\ view.turn.stage = "llm.invoke"
    /\ Logs # <<>>

\* C3: within a session the log only grows at its end: a run of the script
\* (with or without a prompt, sidebar and export included) leaves the old log
\* as a prefix of the new one, and an answered turn adds exactly one entry.
C3_LogAppendOnly ==
    [][SessionStep =>
         /\ IsPrefix(Logs, Logs')
         /\ (view'.turn.answered => Len(Logs') = Len(Logs) + 1)
         /\ (~view'.turn.answered => Logs' = Logs)
         /\ view'.sidebar.csv = Logs]_vars

C3_Witness ==
    /\ Len(Logs) = 2
    /\ view.prompt = NoPrompt
    /\ view.sidebar.download

\* C4: in every answered turn that is not routed to metadata mode, the
\* citations shown are exactly the distinct (file name, page + 1) pairs of all
\* the retrieved records, whatever the reply says.
C4_CitationsFromAllRetrieved ==
    (rendered.done /\ ~IsMetadata(raw_content)) =>
        BagToSet(rendered.out.sources) = {Citation(results[i]) : i \in DOMAIN results}

\* C5: a reply that carries the SOURCE_TYPE: METADATA marker is labelled as
\* grounded on the library list and gets no citation, whatever else it says.
C5_MetadataHasNoCitations ==
    (rendered.done /\ IsMetadata(raw_content)) =>
        /\ rendered.out.source_display = DISPLAY_METADATA
        /\ rendered.out.sources = EmptyBag

\* C6: the text shown and stored for a reply contains neither routing marker.
C6_NoMarkerInCleanResponse ==
    rendered.done =>
        /\ ~Contains(rendered.out.clean_response, MARKER_METADATA)
        /\ ~Contains(rendered.out.clean_response, MARKER_CONTENT)

\* C7 as claimed: the body of setup_engine executes no more than once, and no
\* run started by a query executes it.
C7_BodyRunsAtMostOnce ==
    /\ loaderRuns <= 1
    /\ (view.prompt # NoPrompt => ~view.ran)

\* C7: once setup_engine has returned, its value is cached: no later run
\* executes the body again and the cached value never changes; no run started
\* by a query executes the body.  (An execution that raised cached nothing.)
C7_BuiltOnceAfterReturn ==
    [][/\ cache.filled => (cache' = cache /\ loaderRuns' = loaderRuns)
       /\ loaderRuns' # loaderRuns => (~cache.filled /\ loaderRuns' = loaderRuns + 1)
       /\ AskStep => (loaderRuns' = loaderRuns /\ ~view'.ran)]_vars

C7_Witness ==
    /\ cache.filled
    /\ cache.value # None
    /\ loaderRuns = 2
    /\ view.turn.answered
    /\ Len(Logs) = 2

\* the position of file f in the sequence fs of distinct files
PositionIn(fs, f) == CHOOSE i \in DOMAIN fs : fs[i] = f

\* C8: a file whose load raised is warned about and contributes no page; the
\* pages handed to the index builder are exactly the pages of the other
\* matching files, file by file in listing order, and the store holds them.
C8_FailedFileSkipped ==
    LET pdfs  == lastBuild.pdf_files
        good  == Range(pdfs) \ lastBuild.warned
        pages == lastBuild.all_pages
        file(i) == basename(pages[i].metadata.source)
    IN  /\ lastBuild.warned \subseteq Range(pdfs)
        /\ loaderRuns > 0 =>
              Range(pdfs) = {f \in Range(ListDir(dir)) : f.ext \in {".pdf", ".PDF"}}
        /\ \A i \in DOMAIN pages : file(i) \in good
        /\ \A f \in good : \A n \in 0..(PageCount(f) - 1) :
              Cardinality({i \in DOMAIN pages : pages[i] = Doc(f, n)}) = 1
        /\ \A i, j \in DOMAIN pages : i < j =>
              \/ PositionIn(pdfs, file(i)) < PositionIn(pdfs, file(j))
              \/ /\ file(i) = file(j)
                 /\ pages[i].metadata.page < pages[j].metadata.page
        /\ (cache.filled /\ cache.value # None) => cache.value.documents = pages

C8_Witness ==
    /\ cache.filled
    /\ Len(lastBuild.pdf_files) = 2
    /\ lastBuild.warned = {lastBuild.pdf_files[1]}
    /\ Len(lastBuild.all_pages) = PageCount(lastBuild.pdf_files[2])

\* C9: the citations of a turn are at most k and no (file name, page) pair
\* occurs twice among them, also when a record was retrieved more than once.
C9_CitationsBoundedDistinct ==
    rendered.done =>
        /\ BagCardinality(rendered.out.sources) <= K
        /\ \A c \in BagToSet(rendered.out.sources) : CopiesIn(c, rendered.out.sources) = 1

C9_Witness ==
    /\ rendered.done
    /\ rendered.out.grounding
    /\ Len(results) = K
    /\ Cardinality(Range(results)) = 2
    /\ BagCardinality(rendered.out.sources) = 2

\* the position in the chat history of the i-th assistant message
AssistantAt(i) ==
    CHOOSE j \in AssistantMessages :
        Cardinality({m \in AssistantMessages : m <= j}) = i

\* C10: between runs there are as many log entries as assistant messages, the
\* i-th entry's query is the user prompt right before the i-th assistant
\* message, and there are at least as many user messages as assistant ones.
C10_AuditMatchesHistory ==
    /\ Len(Logs) = Cardinality(AssistantMessages)
    /\ Cardinality(UserMessages) >= Cardinality(AssistantMessages)
    /\ \A i \in 1..Cardinality(AssistantMessages) :
          /\ AssistantAt(i) > 1
          /\ History[AssistantAt(i) - 1] = Message("user", Logs[i].query)

C10_Witness ==
    /\ Len(Logs) = 1
    /\ Cardinality(UserMessages) = 2
    /\ History[1].role = "user"
    /\ History[2].role = "user"
    /\ History[1].content # History[2].content

====
